---------------------------- MODULE Spec2Model ----------------------------
(***************************************************************************)
(* Family shared-expense tracker: the debt calculator (calculateRawDebts,  *)
(* simplifyDebts) and the settlement record ("Debt") lifecycle of          *)
(* routes/debts.js: POST /calculate, POST /settle, POST /finalize.         *)
(*                                                                         *)
(* Every route handler is an async function: between two awaits another    *)
(* request may run.  A handler is therefore modelled as one action per     *)
(* database operation it awaits, and each in-flight request keeps the      *)
(* document it has read (doc) until it saves it.                           *)
(*                                                                         *)
(* Numbers.  JavaScript numbers are modelled as fixed-point integers with  *)
(* Scale units per 1.0 (so 0.01 is Scale \div 100).  Scale is divisible    *)
(* by 2, 3 and 100, which makes every product and quotient the bounded     *)
(* inputs produce exact; Math.round is modelled as round-half-up.          *)
(***************************************************************************)
EXTENDS Integers, Sequences, FiniteSets, TLC

\* ------------------------------------------------------------- bounds
\* number of concurrently served requests
MaxProcs == 2
\* number of settlement records the Debt collection may hold
MaxDebts == 2
\* dates are 1 .. MaxDate
MaxDate == 2
\* Date.now() ranges over 0 .. MaxNow
MaxNow == 1
\* shares per expense handed to the debt calculator
MaxShares == 3
\* expenses per list handed to the debt calculator
MaxExpenses == 3
\* number of expenses the expense routes may store
MaxStoredExpenses == 1

\* ------------------------------------------------------------ numbers
Scale == 600

NULL == "null"

Num(n) == n * Scale

\* a * b of two fixed-point numbers (a, b >= 0), without 32-bit overflow
Mul(a, b) == (a \div Scale) * b + ((a % Scale) * b) \div Scale

\* a / b of two fixed-point numbers (a >= 0, b > 0)
Div(a, b) == (a * Scale) \div b

Min(a, b) == IF a <= b THEN a ELSE b

\* Math.abs
Abs(x) == IF x < 0 THEN -x ELSE x

\* variant of the rounding: Math.round(amount)
Round2_Whole(amount) == ((2 * amount + Scale) \div (2 * Scale)) * Scale

\* Math.round(amount * 100) / 100
Round2(amount) ==
    LET cents == Mul(amount, Num(100))
        rounded == (2 * cents + Scale) \div (2 * Scale)
    IN  rounded * (Scale \div 100)

\* 0.01
Epsilon == Scale \div 100

\* -------------------------------------------------------------- users
Users == {"u1", "u2", "u3", "u4"}

SeqToSet(s) == {s[i] : i \in 1..Len(s)}

\* ---------------------------------------------------- debtCalculator
\* A JavaScript object keyed by user ids keeps its keys in insertion
\* order; debtMap is [order: the debtor keys, cred: per debtor its
\* creditor keys, amt: the amounts].
EmptyDebtMap ==
    [order |-> <<>>,
     cred  |-> [u \in Users |-> <<>>],
     amt   |-> [u \in Users |-> [c \in Users |-> 0]]]

\* variants of OwedAmount: a percentage taken as a fraction; an unrecognised
\* share type taken as a fixed amount
OwedAmount_PercentAsFraction(amount, share) ==
    IF share.shareType = "equal" THEN Mul(amount, share.shareValue)
    ELSE IF share.shareType = "percentage" THEN Mul(amount, share.shareValue)
    ELSE IF share.shareType = "fixed" THEN share.shareValue
    ELSE 0

OwedAmount_UnknownAsFixed(amount, share) ==
    IF share.shareType = "equal" THEN Mul(amount, share.shareValue)
    ELSE IF share.shareType = "percentage"
         THEN Mul(amount, Div(share.shareValue, Num(100)))
    ELSE share.shareValue

\* the amount one share owes to the creator of the expense
OwedAmount(amount, share) ==
    IF share.shareType = "equal" THEN Mul(amount, share.shareValue)
    ELSE IF share.shareType = "percentage"
         THEN Mul(amount, Div(share.shareValue, Num(100)))
    ELSE IF share.shareType = "fixed" THEN share.shareValue
    ELSE 0

\* variant of one iteration in which a later share of a debtor to a creditor
\* replaces the amount instead of adding to it
AddShare_Overwrite(debtMap, creator, amount, share) ==
    LET user == share.user IN
    IF user = creator THEN debtMap
    ELSE
      [order |-> IF user \in SeqToSet(debtMap.order) THEN debtMap.order
                 ELSE Append(debtMap.order, user),
       cred  |-> [debtMap.cred EXCEPT ![user] =
                    IF creator \in SeqToSet(@) THEN @ ELSE Append(@, creator)],
       amt   |-> [debtMap.amt EXCEPT ![user][creator] =
                    OwedAmount(amount, share)]]

\* one iteration of expense.sharedAmongst.forEach
AddShare(debtMap, creator, amount, share) ==
    LET user == share.user IN
    IF user = creator THEN debtMap
    ELSE
      [order |-> IF user \in SeqToSet(debtMap.order) THEN debtMap.order
                 ELSE Append(debtMap.order, user),
       cred  |-> [debtMap.cred EXCEPT ![user] =
                    IF creator \in SeqToSet(@) THEN @ ELSE Append(@, creator)],
       amt   |-> [debtMap.amt EXCEPT ![user][creator] =
                    @ + OwedAmount(amount, share)]]

RECURSIVE AddShares(_, _, _, _, _)
AddShares(debtMap, creator, amount, shares, i) ==
    IF i > Len(shares) THEN debtMap
    ELSE AddShares(AddShare(debtMap, creator, amount, shares[i]),
                   creator, amount, shares, i + 1)

RECURSIVE AddExpenses(_, _, _)
AddExpenses(debtMap, expenses, i) ==
    IF i > Len(expenses) THEN debtMap
    ELSE AddExpenses(AddShares(debtMap, expenses[i].creator, expenses[i].amount,
                               expenses[i].sharedAmongst, 1),
                     expenses, i + 1)

calculateRawDebts(expenses) == AddExpenses(EmptyDebtMap, expenses, 1)

\* balances: [keys: the users in insertion order, val: the net balance]
EmptyBalances == [keys |-> <<>>, val |-> [u \in Users |-> 0]]

Touch(balances, user) ==
    IF user \in SeqToSet(balances.keys) THEN balances
    ELSE [balances EXCEPT !.keys = Append(@, user)]

\* variant of the inner loop that credits the creditor without debiting the
\* debtor
RECURSIVE CreditorLoop_NoDebit(_, _, _, _)
CreditorLoop_NoDebit(balances, rawDebts, debtor, j) ==
    IF j > Len(rawDebts.cred[debtor]) THEN balances
    ELSE LET creditor == rawDebts.cred[debtor][j]
             amount == rawDebts.amt[debtor][creditor]
             b == Touch(balances, creditor)
         IN  CreditorLoop_NoDebit(
               [b EXCEPT !.val = [@ EXCEPT ![creditor] = @ + amount]],
               rawDebts, debtor, j + 1)

RECURSIVE CreditorLoop(_, _, _, _)
CreditorLoop(balances, rawDebts, debtor, j) ==
    IF j > Len(rawDebts.cred[debtor]) THEN balances
    ELSE LET creditor == rawDebts.cred[debtor][j]
             amount == rawDebts.amt[debtor][creditor]
             b == Touch(balances, creditor)
         IN  CreditorLoop(
               [b EXCEPT !.val = [@ EXCEPT ![debtor] = @ - amount,
                                           ![creditor] = @ + amount]],
               rawDebts, debtor, j + 1)

RECURSIVE DebtorLoop(_, _, _)
DebtorLoop(balances, rawDebts, i) ==
    IF i > Len(rawDebts.order) THEN balances
    ELSE LET debtor == rawDebts.order[i]
         IN  DebtorLoop(CreditorLoop(Touch(balances, debtor), rawDebts, debtor, 1),
                        rawDebts, i + 1)

NetBalances(rawDebts) == DebtorLoop(EmptyBalances, rawDebts, 1)

\* variant of the debtor list that takes every negative balance
RECURSIVE Debtors_NoEpsilon(_, _)
Debtors_NoEpsilon(balances, i) ==
    IF i > Len(balances.keys) THEN <<>>
    ELSE LET user == balances.keys[i]
             balance == balances.val[user]
         IN  (IF balance < 0
              THEN <<[user |-> user, amount |-> -balance]>> ELSE <<>>)
             \o Debtors_NoEpsilon(balances, i + 1)

RECURSIVE Debtors(_, _)
Debtors(balances, i) ==
    IF i > Len(balances.keys) THEN <<>>
    ELSE LET user == balances.keys[i]
             balance == balances.val[user]
         IN  (IF balance < -Epsilon
              THEN <<[user |-> user, amount |-> -balance]>> ELSE <<>>)
             \o Debtors(balances, i + 1)

RECURSIVE Creditors(_, _)
Creditors(balances, i) ==
    IF i > Len(balances.keys) THEN <<>>
    ELSE LET user == balances.keys[i]
             balance == balances.val[user]
         IN  (IF balance >= -Epsilon /\ balance > Epsilon
              THEN <<[user |-> user, amount |-> balance]>> ELSE <<>>)
             \o Creditors(balances, i + 1)

\* Array.prototype.sort((a, b) => b.amount - a.amount): stable, descending
RECURSIVE InsertDesc(_, _)
InsertDesc(sorted, x) ==
    IF sorted = <<>> THEN <<x>>
    ELSE IF Head(sorted).amount >= x.amount
         THEN <<Head(sorted)>> \o InsertDesc(Tail(sorted), x)
         ELSE <<x>> \o sorted

\* variant of the sort that leaves the list as it is
SortDesc_None(list, i) == SubSeq(list, 1, i)

RECURSIVE SortDesc(_, _)
SortDesc(list, i) ==
    IF i = 0 THEN <<>> ELSE InsertDesc(SortDesc(list, i - 1), list[i])

\* variant of the loop that sorts both lists again after every transaction
RECURSIVE Greedy_Resort(_, _, _)
Greedy_Resort(debtors, creditors, transactions) ==
    IF debtors = <<>> \/ creditors = <<>> THEN transactions
    ELSE LET debtor == debtors[1]
             creditor == creditors[1]
             amount == Min(debtor.amount, creditor.amount)
             dAmt == debtor.amount - amount
             cAmt == creditor.amount - amount
             ds == IF dAmt < Epsilon THEN Tail(debtors)
                   ELSE <<[debtor EXCEPT !.amount = dAmt]>> \o Tail(debtors)
             cs == IF cAmt < Epsilon THEN Tail(creditors)
                   ELSE <<[creditor EXCEPT !.amount = cAmt]>> \o Tail(creditors)
         IN  Greedy_Resort(SortDesc(ds, Len(ds)), SortDesc(cs, Len(cs)),
               Append(transactions,
                      [from |-> debtor.user, to |-> creditor.user,
                       amount |-> Round2(amount)]))

\* variant of the loop that moves at most 10 per transaction
RECURSIVE Greedy_Capped(_, _, _)
Greedy_Capped(debtors, creditors, transactions) ==
    IF debtors = <<>> \/ creditors = <<>> THEN transactions
    ELSE LET debtor == debtors[1]
             creditor == creditors[1]
             amount == Min(Min(debtor.amount, creditor.amount), Num(10))
             dAmt == debtor.amount - amount
             cAmt == creditor.amount - amount
         IN  Greedy_Capped(
               IF dAmt < Epsilon THEN Tail(debtors)
               ELSE <<[debtor EXCEPT !.amount = dAmt]>> \o Tail(debtors),
               IF cAmt < Epsilon THEN Tail(creditors)
               ELSE <<[creditor EXCEPT !.amount = cAmt]>> \o Tail(creditors),
               Append(transactions,
                      [from |-> debtor.user, to |-> creditor.user,
                       amount |-> Round2(amount)]))

\* the while loop of simplifyDebts
RECURSIVE Greedy(_, _, _)
Greedy(debtors, creditors, transactions) ==
    IF debtors = <<>> \/ creditors = <<>> THEN transactions
    ELSE LET debtor == debtors[1]
             creditor == creditors[1]
             amount == Min(debtor.amount, creditor.amount)
             dAmt == debtor.amount - amount
             cAmt == creditor.amount - amount
         IN  Greedy(
               IF dAmt < Epsilon THEN Tail(debtors)
               ELSE <<[debtor EXCEPT !.amount = dAmt]>> \o Tail(debtors),
               IF cAmt < Epsilon THEN Tail(creditors)
               ELSE <<[creditor EXCEPT !.amount = cAmt]>> \o Tail(creditors),
               Append(transactions,
                      [from |-> debtor.user, to |-> creditor.user,
                       amount |-> Round2(amount)]))

simplifyDebts(rawDebts) ==
    LET balances == NetBalances(rawDebts)
        debtors == Debtors(balances, 1)
        creditors == Creditors(balances, 1)
    IN  Greedy(SortDesc(debtors, Len(debtors)),
               SortDesc(creditors, Len(creditors)), <<>>)

\* ------------------------------------------------------------- state
VARIABLES
    Family,   \* the family collection: id -> document
    Expense,  \* the expense collection, in insertion order
    Debt,     \* the debt collection (settlement records); _id = index
    now,      \* Date.now()
    pc,       \* per request slot: the await the request is suspended at
    req,      \* per request slot: the request's parameters and user
    doc,      \* per request slot: the document the handler holds in memory
    res,      \* per request slot: the last response sent
    ok        \* number of 200 responses sent per finalize / settle target

vars == <<Family, Expense, Debt, now, pc, req, doc, res, ok>>

Procs == 1..MaxProcs
Dates == 1..MaxDate
DebtIds == 1..MaxDebts
FamilyIds == {"f1", "f2"}
\* debtIndex values a request may carry
DebtIndexes == -1..2

\* the family and the expenses the lifecycle runs on: u1 is the head of f1,
\* u2 and u3 are members, u4 is in no family; f2 does not exist.  On date 1
\* u1 paid 90 shared equally by u1, u2, u3; on date 2 u2 paid 30 for u2 alone.
InitFamily ==
    [f \in {"f1"} |->
       [members |-> <<[user |-> "u1", role |-> "head"],
                      [user |-> "u2", role |-> "member"],
                      [user |-> "u3", role |-> "member"]>>]]

InitExpense ==
    << [family |-> "f1", creator |-> "u1", amount |-> Num(90), date |-> 1,
        sharedAmongst |->
          <<[user |-> "u1", shareType |-> "equal", shareValue |-> Div(Num(1), Num(3))],
            [user |-> "u2", shareType |-> "equal", shareValue |-> Div(Num(1), Num(3))],
            [user |-> "u3", shareType |-> "equal", shareValue |-> Div(Num(1), Num(3))]>>],
       [family |-> "f1", creator |-> "u2", amount |-> Num(30), date |-> 2,
        sharedAmongst |->
          <<[user |-> "u2", shareType |-> "equal", shareValue |-> Div(Num(1), Num(1))]>>] >>

NoReq == [op |-> "none"]
NoRes == [route |-> "none", status |-> 0, msg |-> ""]

Init ==
    /\ Family = InitFamily
    /\ Expense = InitExpense
    /\ Debt = <<>>
    /\ now = 0
    /\ pc = [p \in Procs |-> "idle"]
    /\ req = [p \in Procs |-> NoReq]
    /\ doc = [p \in Procs |-> NULL]
    /\ res = [p \in Procs |-> NoRes]
    /\ ok = [finalize |-> [d \in DebtIds |-> 0],
             settle   |-> [d \in DebtIds |-> [i \in DebtIndexes |-> 0]]]

\* ----------------------------------------------------------- helpers
\* variant of isFamilyHead that accepts every member of the family
isFamilyHead_AnyMember(userId, familyId) ==
    /\ familyId \in DOMAIN Family
    /\ \E k \in 1..Len(Family[familyId].members) :
          Family[familyId].members[k].user = userId

isFamilyHead(userId, familyId) ==
    /\ familyId \in DOMAIN Family
    /\ \E k \in 1..Len(Family[familyId].members) :
          /\ Family[familyId].members[k].role = "head"
          /\ Family[familyId].members[k].user = userId

isFamilyMember(userId, familyId) ==
    /\ familyId \in DOMAIN Family
    /\ \E k \in 1..Len(Family[familyId].members) :
          Family[familyId].members[k].user = userId

\* variants of the overlap query: strict bounds; the end of the period ignored
FinalizedOverlapping_Strict(familyId, startDate, endDate) ==
    {d \in 1..Len(Debt) :
       /\ Debt[d].family = familyId
       /\ Debt[d].isFinalized
       /\ Debt[d].period.startDate < endDate
       /\ Debt[d].period.endDate > startDate}

FinalizedOverlapping_SamePeriod(familyId, startDate, endDate) ==
    {d \in 1..Len(Debt) :
       /\ Debt[d].family = familyId
       /\ Debt[d].isFinalized
       /\ Debt[d].period.startDate = startDate
       /\ Debt[d].period.endDate = endDate}

\* Debt.findOne({family, isFinalized: true, 'period.startDate': {$lte: endDate},
\*               'period.endDate': {$gte: startDate}}): the matching ids
FinalizedOverlapping(familyId, startDate, endDate) ==
    {d \in 1..Len(Debt) :
       /\ Debt[d].family = familyId
       /\ Debt[d].isFinalized
       /\ Debt[d].period.startDate <= endDate
       /\ Debt[d].period.endDate >= startDate}

\* Expense.find({family, date: {$gte: startDate, $lte: endDate}})
ExpensesInPeriod(familyId, startDate, endDate) ==
    SelectSeq(Expense, LAMBDA e : /\ e.family = familyId
                                  /\ e.date >= startDate
                                  /\ e.date <= endDate)

\* variant of new Debt whose transactions start settled
NewDebt_Settled(familyId, startDate, endDate, simplifiedDebts) ==
    [family      |-> familyId,
     period      |-> [startDate |-> startDate, endDate |-> endDate],
     debts       |-> [i \in 1..Len(simplifiedDebts) |->
                        [from      |-> simplifiedDebts[i].from,
                         to        |-> simplifiedDebts[i].to,
                         amount    |-> simplifiedDebts[i].amount,
                         settled   |-> TRUE,
                         settledAt |-> now]],
     isFinalized |-> FALSE,
     finalizedAt |-> NULL,
     updatedAt   |-> now]

\* new Debt({family, period, debts}): the schema's defaults filled in
\* (createdAt, which no handler reads or writes again, is left out)
NewDebt(familyId, startDate, endDate, simplifiedDebts) ==
    [family      |-> familyId,
     period      |-> [startDate |-> startDate, endDate |-> endDate],
     debts       |-> [i \in 1..Len(simplifiedDebts) |->
                        [from      |-> simplifiedDebts[i].from,
                         to        |-> simplifiedDebts[i].to,
                         amount    |-> simplifiedDebts[i].amount,
                         settled   |-> FALSE,
                         settledAt |-> NULL]],
     isFinalized |-> FALSE,
     finalizedAt |-> NULL,
     updatedAt   |-> now]

\* res.status(status).json({msg}) of a handler of the given route; the
\* request is over
Respond(p, route, status, msg) ==
    /\ res' = [res EXCEPT ![p] = [route |-> route, status |-> status, msg |-> msg]]
    /\ pc' = [pc EXCEPT ![p] = "idle"]
    /\ req' = [req EXCEPT ![p] = NoReq]
    /\ doc' = [doc EXCEPT ![p] = NULL]

\* records being created by requests still in flight
Creating == {p \in Procs : pc[p] \in {"calc_findOne", "calc_find", "calc_save"}}

\* ---------------------------------------- POST api/debts/calculate/:familyId
\* a request arrives (startDate and endDate are present) and awaits
\* isFamilyMember
CalculateIsFamilyMember(p, user, familyId, startDate, endDate) ==
    /\ pc[p] = "idle"
    /\ Len(Debt) + Cardinality(Creating) < MaxDebts
    /\ IF ~isFamilyMember(user, familyId)
       THEN Respond(p, "calculate", 403, "Not authorized to calculate debts for this family")
       ELSE /\ pc' = [pc EXCEPT ![p] = "calc_findOne"]
            /\ req' = [req EXCEPT ![p] =
                         [op |-> "calculate", user |-> user, familyId |-> familyId,
                          startDate |-> startDate, endDate |-> endDate]]
            /\ doc' = [doc EXCEPT ![p] = NULL]
            /\ res' = [res EXCEPT ![p] = NoRes]
    /\ UNCHANGED <<Family, Expense, Debt, now, ok>>

\* await Debt.findOne(...): a finalized record overlapping the period
CalculateFindOne(p) ==
    /\ pc[p] = "calc_findOne"
    /\ LET hits == FinalizedOverlapping(req[p].familyId, req[p].startDate,
                                        req[p].endDate)
       IN  IF hits # {}
           THEN /\ \E finalizedDebt \in hits :
                     res' = [res EXCEPT ![p] =
                               [route |-> "calculate", status |-> 400,
                                msg |-> "This period has already been finalized",
                                finalizedDebtId |-> finalizedDebt]]
                /\ pc' = [pc EXCEPT ![p] = "idle"]
                /\ req' = [req EXCEPT ![p] = NoReq]
                /\ doc' = [doc EXCEPT ![p] = NULL]
           ELSE /\ pc' = [pc EXCEPT ![p] = "calc_find"]
                /\ UNCHANGED <<req, doc, res>>
    /\ UNCHANGED <<Family, Expense, Debt, now, ok>>

\* await Expense.find(...), then calculateRawDebts, simplifyDebts, new Debt
CalculateFind(p) ==
    /\ pc[p] = "calc_find"
    /\ LET expenses == ExpensesInPeriod(req[p].familyId, req[p].startDate,
                                        req[p].endDate)
           rawDebts == calculateRawDebts(expenses)
           simplifiedDebts == simplifyDebts(rawDebts)
       IN  IF Len(expenses) = 0
           THEN Respond(p, "calculate", 400, "No expenses found for the given period")
           ELSE /\ doc' = [doc EXCEPT ![p] =
                             NewDebt(req[p].familyId, req[p].startDate,
                                     req[p].endDate, simplifiedDebts)]
                /\ pc' = [pc EXCEPT ![p] = "calc_save"]
                /\ UNCHANGED <<req, res>>
    /\ UNCHANGED <<Family, Expense, Debt, now, ok>>

\* await debt.save(): the new record is inserted
CalculateSave(p) ==
    /\ pc[p] = "calc_save"
    /\ Debt' = Append(Debt, doc[p])
    /\ Respond(p, "calculate", 200, "")
    /\ UNCHANGED <<Family, Expense, now, ok>>

\* ------------------------------------------- POST api/debts/settle/:debtId
\* a request arrives with a numeric debtIndex and awaits Debt.findById
SettleFindById(p, user, debtId, debtIndex) ==
    /\ pc[p] = "idle"
    /\ IF debtId \notin 1..Len(Debt)
       THEN Respond(p, "settle", 404, "Debt record not found")
       ELSE /\ pc' = [pc EXCEPT ![p] = "settle_isFamilyHead"]
            /\ req' = [req EXCEPT ![p] =
                         [op |-> "settle", user |-> user, debtId |-> debtId,
                          debtIndex |-> debtIndex]]
            /\ doc' = [doc EXCEPT ![p] = Debt[debtId]]
            /\ res' = [res EXCEPT ![p] = NoRes]
    /\ UNCHANGED <<Family, Expense, Debt, now, ok>>

\* variant of SettleCheck without the already-settled check
SettleCheck_NoSettledGate(debt, debtIndex) ==
    IF debt.isFinalized THEN "This debt record is already finalized"
    ELSE IF debtIndex < 0 \/ debtIndex >= Len(debt.debts) THEN "Invalid debt index"
    ELSE ""

\* variant of SettleCheck that answers an index out of bounds as a settled one
SettleCheck_IndexAsSettled(debt, debtIndex) ==
    IF debt.isFinalized THEN "This debt record is already finalized"
    ELSE IF debtIndex < 0 \/ debtIndex >= Len(debt.debts)
         THEN "This debt is already settled"
    ELSE IF debt.debts[debtIndex + 1].settled THEN "This debt is already settled"
    ELSE ""

\* the checks of the settle handler on the document it holds: the response
\* it returns early with, or "" when the transaction is to be marked
SettleCheck(debt, debtIndex) ==
    IF debt.isFinalized THEN "This debt record is already finalized"
    ELSE IF debtIndex < 0 \/ debtIndex >= Len(debt.debts) THEN "Invalid debt index"
    ELSE IF debt.debts[debtIndex + 1].settled THEN "This debt is already settled"
    ELSE ""

\* await isFamilyHead, then the checks, then the in-memory update
SettleIsFamilyHead(p) ==
    /\ pc[p] = "settle_isFamilyHead"
    /\ LET debt == doc[p]
           debtIndex == req[p].debtIndex
       IN  IF ~isFamilyHead(req[p].user, debt.family)
           THEN Respond(p, "settle", 403, "Only head of family can settle debts")
           ELSE IF SettleCheck(debt, debtIndex) # ""
           THEN Respond(p, "settle", 400, SettleCheck(debt, debtIndex))
           ELSE /\ doc' = [doc EXCEPT ![p] =
                             [debt EXCEPT !.debts[debtIndex + 1].settled = TRUE,
                                          !.debts[debtIndex + 1].settledAt = now,
                                          !.updatedAt = now]]
                /\ pc' = [pc EXCEPT ![p] = "settle_save"]
                /\ UNCHANGED <<req, res>>
    /\ UNCHANGED <<Family, Expense, Debt, now, ok>>

\* variant of the save of the settle handler that answers without writing
SettleSave_NoWrite(p) ==
    /\ pc[p] = "settle_save"
    /\ Debt' = Debt
    /\ ok' = [ok EXCEPT !.settle[req[p].debtId][req[p].debtIndex] = @ + 1]
    /\ Respond(p, "settle", 200, "")
    /\ UNCHANGED <<Family, Expense, now>>

\* variant of the save of the settle handler that marks every transaction of
\* the record
SettleSave_AllSettled(p) ==
    /\ pc[p] = "settle_save"
    /\ LET d == req[p].debtId
       IN  /\ Debt' = [Debt EXCEPT ![d].debts =
                          [j \in 1..Len(Debt[d].debts) |->
                             IF j = req[p].debtIndex + 1
                             THEN doc[p].debts[j]
                             ELSE [Debt[d].debts[j] EXCEPT !.settled = TRUE]],
                                   ![d].updatedAt = doc[p].updatedAt]
           /\ ok' = [ok EXCEPT !.settle[d][req[p].debtIndex] = @ + 1]
    /\ Respond(p, "settle", 200, "")
    /\ UNCHANGED <<Family, Expense, now>>

\* await debt.save(): the modified paths debts.<i>.settled,
\* debts.<i>.settledAt and updatedAt are written to the stored record
SettleSave(p) ==
    /\ pc[p] = "settle_save"
    /\ LET d == req[p].debtId
           i == req[p].debtIndex + 1
       IN  /\ Debt' = [Debt EXCEPT ![d].debts[i].settled = doc[p].debts[i].settled,
                                   ![d].debts[i].settledAt = doc[p].debts[i].settledAt,
                                   ![d].updatedAt = doc[p].updatedAt]
           /\ ok' = [ok EXCEPT !.settle[d][req[p].debtIndex] = @ + 1]
    /\ Respond(p, "settle", 200, "")
    /\ UNCHANGED <<Family, Expense, now>>

\* ----------------------------------------- POST api/debts/finalize/:debtId
FinalizeFindById(p, user, debtId) ==
    /\ pc[p] = "idle"
    /\ IF debtId \notin 1..Len(Debt)
       THEN Respond(p, "finalize", 404, "Debt record not found")
       ELSE /\ pc' = [pc EXCEPT ![p] = "finalize_isFamilyHead"]
            /\ req' = [req EXCEPT ![p] =
                         [op |-> "finalize", user |-> user, debtId |-> debtId]]
            /\ doc' = [doc EXCEPT ![p] = Debt[debtId]]
            /\ res' = [res EXCEPT ![p] = NoRes]
    /\ UNCHANGED <<Family, Expense, Debt, now, ok>>

\* debt.debts.every(d => d.settled)
allSettled(debt) == \A i \in 1..Len(debt.debts) : debt.debts[i].settled

\* variants of FinalizeCheck with one of its checks missing
FinalizeCheck_NoSettledGate(debt) ==
    IF debt.isFinalized THEN "This debt record is already finalized"
    ELSE ""

FinalizeCheck_NoFinalizedGate(debt) ==
    IF ~allSettled(debt) THEN "All debts must be settled before finalizing"
    ELSE ""

FinalizeCheck_SettledGateAny(debt) ==
    IF debt.isFinalized THEN "This debt record is already finalized"
    ELSE IF ~(\E i \in 1..Len(debt.debts) : debt.debts[i].settled)
         THEN "All debts must be settled before finalizing"
    ELSE ""

\* the checks of the finalize handler on the document it holds
FinalizeCheck(debt) ==
    IF debt.isFinalized THEN "This debt record is already finalized"
    ELSE IF ~allSettled(debt) THEN "All debts must be settled before finalizing"
    ELSE ""

FinalizeIsFamilyHead(p) ==
    /\ pc[p] = "finalize_isFamilyHead"
    /\ LET debt == doc[p]
       IN  IF ~isFamilyHead(req[p].user, debt.family)
           THEN Respond(p, "finalize", 403, "Only head of family can finalize debts")
           ELSE IF FinalizeCheck(debt) # ""
           THEN Respond(p, "finalize", 400, FinalizeCheck(debt))
           ELSE /\ doc' = [doc EXCEPT ![p] =
                             [debt EXCEPT !.isFinalized = TRUE,
                                          !.finalizedAt = now,
                                          !.updatedAt = now]]
                /\ pc' = [pc EXCEPT ![p] = "finalize_save"]
                /\ UNCHANGED <<req, res>>
    /\ UNCHANGED <<Family, Expense, Debt, now, ok>>

\* await debt.save(): the modified paths isFinalized, finalizedAt and
\* updatedAt are written to the stored record
FinalizeSave(p) ==
    /\ pc[p] = "finalize_save"
    /\ LET d == req[p].debtId
       IN  /\ Debt' = [Debt EXCEPT ![d].isFinalized = doc[p].isFinalized,
                                   ![d].finalizedAt = doc[p].finalizedAt,
                                   ![d].updatedAt = doc[p].updatedAt]
           /\ ok' = [ok EXCEPT !.finalize[d] = @ + 1]
    /\ Respond(p, "finalize", 200, "")
    /\ UNCHANGED <<Family, Expense, now>>

\* ------------------------------------------------------------- clock
Tick ==
    /\ now < MaxNow
    /\ now' = now + 1
    /\ UNCHANGED <<Family, Expense, Debt, pc, req, doc, res, ok>>

\* ------------------------------------------------------ specification
\* users sending requests: the head, a member, a user outside the family
Callers == {"u1", "u2", "u4"}

Arrive(p) ==
    \/ \E user \in Callers, familyId \in FamilyIds, s \in Dates, e \in Dates :
          CalculateIsFamilyMember(p, user, familyId, s, e)
    \/ \E user \in Callers, debtId \in DebtIds, debtIndex \in DebtIndexes :
          SettleFindById(p, user, debtId, debtIndex)
    \/ \E user \in Callers, debtId \in DebtIds :
          FinalizeFindById(p, user, debtId)

Step(p) ==
    \/ CalculateFindOne(p)
    \/ CalculateFind(p)
    \/ CalculateSave(p)
    \/ SettleIsFamilyHead(p)
    \/ SettleSave(p)
    \/ FinalizeIsFamilyHead(p)
    \/ FinalizeSave(p)

\* Requests served one after the other: a request arrives when the one
\* before it has been answered.
Next ==
    \/ Arrive(1)
    \/ Step(1)
    \/ Tick

Spec == Init /\ [][Next]_vars

\* Requests served concurrently: the settle and finalize requests of the head
\* of the family against one record, interleaved at their awaits.  The run
\* starts from the record POST /calculate creates for the period [1, 1].
ConcInit ==
    /\ Family = InitFamily
    /\ Expense = InitExpense
    /\ now = 0
    /\ Debt = <<NewDebt("f1", 1, 1,
                  simplifyDebts(calculateRawDebts(ExpensesInPeriod("f1", 1, 1))))>>
    /\ pc = [p \in Procs |-> "idle"]
    /\ req = [p \in Procs |-> NoReq]
    /\ doc = [p \in Procs |-> NULL]
    /\ res = [p \in Procs |-> NoRes]
    /\ ok = [finalize |-> [d \in DebtIds |-> 0],
             settle   |-> [d \in DebtIds |-> [i \in DebtIndexes |-> 0]]]

ConcArrive(p) ==
    \/ \E debtIndex \in DebtIndexes : SettleFindById(p, "u1", 1, debtIndex)
    \/ FinalizeFindById(p, "u1", 1)

ConcStep(p) ==
    \/ SettleIsFamilyHead(p)
    \/ SettleSave(p)
    \/ FinalizeIsFamilyHead(p)
    \/ FinalizeSave(p)

ConcNext ==
    \/ \E p \in Procs : ConcArrive(p)
    \/ \E p \in Procs : ConcStep(p)
    \/ Tick

ConcSpec == ConcInit /\ [][ConcNext]_vars

\* The head of the family working on one record: settle and finalize
\* requests served one after the other, from the record POST /calculate
\* creates for the period [1, 1].  The event loop runs every handler to its
\* end, and the head keeps sending each request.
LiveArrive(p) ==
    \/ \E debtIndex \in DebtIndexes : SettleFindById(p, "u1", 1, debtIndex)
    \/ FinalizeFindById(p, "u1", 1)

LiveNext ==
    \/ LiveArrive(1)
    \/ ConcStep(1)
    \/ Tick

LiveSpec ==
    /\ ConcInit
    /\ [][LiveNext]_vars
    /\ WF_vars(ConcStep(1))
    /\ \A debtIndex \in DebtIndexes : SF_vars(SettleFindById(1, "u1", 1, debtIndex))
    /\ SF_vars(FinalizeFindById(1, "u1", 1))

\* The debt calculator on its own: POST /calculate applied to every expense
\* list of a bounded family of inputs.  A share is any of the three share
\* types, or an unrecognised one, with a value of that type; the shares of
\* an expense name distinct users.
UserSeq == <<"u1", "u2", "u3", "u4">>

ShareKinds ==
    { [shareType |-> "equal",      shareValue |-> Div(Num(1), Num(3))],
      [shareType |-> "equal",      shareValue |-> Div(Num(1), Num(2))],
      [shareType |-> "percentage", shareValue |-> Num(50)],
      [shareType |-> "fixed",      shareValue |-> Epsilon],
      [shareType |-> "fixed",      shareValue |-> Num(10)],
      [shareType |-> "other",      shareValue |-> Num(15)] }

\* the share lists of n shares, for the users UserSeq[u[1]] .. UserSeq[u[n]]
ShareLists(n) ==
    { [i \in 1..n |-> [user |-> UserSeq[u[i]], shareType |-> k[i].shareType,
                       shareValue |-> k[i].shareValue]] :
        u \in {v \in [1..n -> 1..Len(UserSeq)] :
                 \A i \in 1..n : \A j \in 1..n : i < j => v[i] < v[j]},
        k \in [1..n -> ShareKinds] }

CalcExpense(creator, amount, shares) ==
    [family |-> "f1", creator |-> creator, amount |-> amount, date |-> 1,
     sharedAmongst |-> shares]

\* one expense: any creator, any share list of up to MaxShares shares
CalcSingles ==
    { <<CalcExpense(creator, amount, shares)>> :
        creator \in Users, amount \in {Num(90), Num(100)},
        shares \in UNION {ShareLists(n) : n \in 1..MaxShares} }

\* expenses to build longer lists from: debts in both directions between two
\* users, a user who is debtor of one expense and creditor of another
CalcCatalogue ==
    { CalcExpense("u1", Num(90),
        <<[user |-> "u1", shareType |-> "equal", shareValue |-> Div(Num(1), Num(3))],
          [user |-> "u2", shareType |-> "equal", shareValue |-> Div(Num(1), Num(3))],
          [user |-> "u3", shareType |-> "equal", shareValue |-> Div(Num(1), Num(3))]>>),
      CalcExpense("u2", Num(30),
        <<[user |-> "u2", shareType |-> "equal", shareValue |-> Div(Num(1), Num(2))],
          [user |-> "u3", shareType |-> "equal", shareValue |-> Div(Num(1), Num(2))]>>),
      CalcExpense("u3", Num(100),
        <<[user |-> "u1", shareType |-> "percentage", shareValue |-> Num(50)],
          [user |-> "u3", shareType |-> "percentage", shareValue |-> Num(50)]>>),
      CalcExpense("u2", Num(10),
        <<[user |-> "u1", shareType |-> "fixed", shareValue |-> Num(10)]>>),
      CalcExpense("u1", Num(90),
        <<[user |-> "u2", shareType |-> "fixed", shareValue |-> Epsilon],
          [user |-> "u3", shareType |-> "other", shareValue |-> Num(15)]>>),
      CalcExpense("u4", Num(100),
        <<[user |-> "u1", shareType |-> "equal", shareValue |-> Div(Num(1), Num(3))],
          [user |-> "u2", shareType |-> "equal", shareValue |-> Div(Num(1), Num(3))],
          [user |-> "u4", shareType |-> "equal", shareValue |-> Div(Num(1), Num(3))]>>) }

CalcInputs ==
    {<<>>} \cup CalcSingles
           \cup UNION {[1..n -> CalcCatalogue] : n \in 2..MaxExpenses}

CalcInit ==
    /\ Family = InitFamily
    /\ Expense \in CalcInputs
    /\ Debt = <<>>
    /\ now = 0
    /\ pc = [p \in Procs |-> "idle"]
    /\ req = [p \in Procs |-> NoReq]
    /\ doc = [p \in Procs |-> NULL]
    /\ res = [p \in Procs |-> NoRes]
    /\ ok = [finalize |-> [d \in DebtIds |-> 0],
             settle   |-> [d \in DebtIds |-> [i \in DebtIndexes |-> 0]]]

\* the head asks for the calculation over all dates
CalcArrive(p) == CalculateIsFamilyMember(p, "u1", "f1", 1, MaxDate)

CalcNext ==
    \/ CalcArrive(1)
    \/ CalculateFindOne(1)
    \/ CalculateFind(1)
    \/ CalculateSave(1)

CalcSpec == CalcInit /\ [][CalcNext]_vars

\* ------------------------------------------------- routes of api/expenses
\* share.shareValue || 0, summed over the list
RECURSIVE SumShareValues(_)
SumShareValues(sharedAmongst) ==
    IF sharedAmongst = <<>> THEN 0
    ELSE Head(sharedAmongst).shareValue + SumShareValues(Tail(sharedAmongst))

\* the members of the family, as the user ids
FamilyMemberIds(familyId) ==
    {Family[familyId].members[k].user : k \in 1..Len(Family[familyId].members)}

\* variant of ProcessShares without the comparison of fixed shares with the
\* amount
ProcessShares_NoFixedCheck(sharedAmongst, amount, familyId, unchanged) ==
    LET shareType == sharedAmongst[1].shareType IN
    IF \E k \in 1..Len(sharedAmongst) :
          sharedAmongst[k].user \notin FamilyMemberIds(familyId)
    THEN [msg |-> "All shared users must be family members", shares |-> unchanged]
    ELSE IF shareType = "equal"
    THEN [msg |-> "",
          shares |-> [k \in 1..Len(sharedAmongst) |->
                        [user |-> sharedAmongst[k].user, shareType |-> "equal",
                         shareValue |-> Div(Num(1), Num(Len(sharedAmongst)))]]]
    ELSE IF shareType = "percentage"
    THEN IF Abs(SumShareValues(sharedAmongst) - Num(100)) > Epsilon
         THEN [msg |-> "Percentage shares must total 100%", shares |-> unchanged]
         ELSE [msg |-> "", shares |-> sharedAmongst]
    ELSE IF shareType = "fixed"
    THEN [msg |-> "", shares |-> sharedAmongst]
    ELSE [msg |-> "", shares |-> unchanged]

\* the validation and processing of a non-empty sharedAmongst of a request
\* against the amount: the message of the 400 it ends with ("" when it
\* passes) and the share list to store (unchanged is the list kept when no
\* branch of the share type applies)
ProcessShares(sharedAmongst, amount, familyId, unchanged) ==
    LET shareType == sharedAmongst[1].shareType IN
    IF \E k \in 1..Len(sharedAmongst) :
          sharedAmongst[k].user \notin FamilyMemberIds(familyId)
    THEN [msg |-> "All shared users must be family members", shares |-> unchanged]
    ELSE IF shareType = "equal"
    THEN [msg |-> "",
          shares |-> [k \in 1..Len(sharedAmongst) |->
                        [user |-> sharedAmongst[k].user, shareType |-> "equal",
                         shareValue |-> Div(Num(1), Num(Len(sharedAmongst)))]]]
    ELSE IF shareType = "percentage"
    THEN IF Abs(SumShareValues(sharedAmongst) - Num(100)) > Epsilon
         THEN [msg |-> "Percentage shares must total 100%", shares |-> unchanged]
         ELSE [msg |-> "", shares |-> sharedAmongst]
    ELSE IF shareType = "fixed"
    THEN IF Abs(SumShareValues(sharedAmongst) - amount) > Epsilon
         THEN [msg |-> "Fixed shares must total to expense amount", shares |-> unchanged]
         ELSE [msg |-> "", shares |-> sharedAmongst]
    ELSE [msg |-> "", shares |-> unchanged]

\* the default of POST: equal sharing among all family members
DefaultShares(familyId) ==
    [k \in 1..Len(Family[familyId].members) |->
       [user |-> Family[familyId].members[k].user, shareType |-> "equal",
        shareValue |-> Div(Num(1), Num(Len(Family[familyId].members)))]]

\* records being created by POST requests still in flight
CreatingExpense == {p \in Procs : pc[p] \in {"exp_post_findById", "exp_post_save"}}

\* POST api/expenses: a request arrives (amount numeric, the other fields
\* present, the date 1) and awaits isFamilyMember; an empty sharedAmongst
\* stands for one that is absent or not an array as well
ExpensePostIsFamilyMember(p, user, familyId, amount, sharedAmongst) ==
    /\ pc[p] = "idle"
    /\ Len(Expense) + Cardinality(CreatingExpense) < MaxStoredExpenses
    /\ IF ~isFamilyMember(user, familyId)
       THEN Respond(p, "expense_post", 403, "Not authorized to add expenses to this family")
       ELSE /\ pc' = [pc EXCEPT ![p] = "exp_post_findById"]
            /\ req' = [req EXCEPT ![p] =
                         [op |-> "expense_post", user |-> user, familyId |-> familyId,
                          amount |-> amount, sharedAmongst |-> sharedAmongst]]
            /\ doc' = [doc EXCEPT ![p] = NULL]
            /\ res' = [res EXCEPT ![p] = NoRes]
    /\ UNCHANGED <<Family, Expense, Debt, now, ok>>

\* await Family.findById, then the processing of sharedAmongst and
\* new Expense
ExpensePostFindById(p) ==
    /\ pc[p] = "exp_post_findById"
    /\ LET r == req[p]
           processed == IF Len(r.sharedAmongst) > 0
                        THEN ProcessShares(r.sharedAmongst, r.amount, r.familyId, <<>>)
                        ELSE [msg |-> "", shares |-> DefaultShares(r.familyId)]
       IN  IF processed.msg # ""
           THEN Respond(p, "expense_post", 400, processed.msg)
           ELSE /\ doc' = [doc EXCEPT ![p] =
                             [family |-> r.familyId, creator |-> r.user,
                              amount |-> r.amount, date |-> 1,
                              sharedAmongst |-> processed.shares]]
                /\ pc' = [pc EXCEPT ![p] = "exp_post_save"]
                /\ UNCHANGED <<req, res>>
    /\ UNCHANGED <<Family, Expense, Debt, now, ok>>

\* await expense.save(): the new expense is inserted
ExpensePostSave(p) ==
    /\ pc[p] = "exp_post_save"
    /\ Expense' = Append(Expense, doc[p])
    /\ Respond(p, "expense_post", 200, "")
    /\ UNCHANGED <<Family, Debt, now, ok>>

\* PUT api/expenses/:id: a request arrives and awaits Expense.findById;
\* the amount 0 and the empty sharedAmongst stand for absent ones as well
ExpensePutFindById(p, user, id, amount, sharedAmongst) ==
    /\ pc[p] = "idle"
    /\ IF id \notin 1..Len(Expense)
       THEN Respond(p, "expense_put", 404, "Expense not found")
       ELSE /\ pc' = [pc EXCEPT ![p] = "exp_put_update"]
            /\ req' = [req EXCEPT ![p] =
                         [op |-> "expense_put", user |-> user, id |-> id,
                          amount |-> amount, sharedAmongst |-> sharedAmongst]]
            /\ doc' = [doc EXCEPT ![p] = Expense[id]]
            /\ res' = [res EXCEPT ![p] = NoRes]
    /\ UNCHANGED <<Family, Expense, Debt, now, ok>>

\* the creator check, the update of the fields provided, and the
\* processing of sharedAmongst when it is provided (after Family.findById)
ExpensePutUpdate(p) ==
    /\ pc[p] = "exp_put_update"
    /\ LET r == req[p]
           expense == doc[p]
           amount == IF r.amount # 0 THEN r.amount ELSE expense.amount
           processed == IF Len(r.sharedAmongst) > 0
                        THEN ProcessShares(r.sharedAmongst, amount, expense.family,
                                           expense.sharedAmongst)
                        ELSE [msg |-> "", shares |-> expense.sharedAmongst]
       IN  IF expense.creator # r.user
           THEN Respond(p, "expense_put", 403, "Not authorized to update this expense")
           ELSE IF processed.msg # ""
           THEN Respond(p, "expense_put", 400, processed.msg)
           ELSE /\ doc' = [doc EXCEPT ![p] =
                             [expense EXCEPT !.amount = amount,
                                             !.sharedAmongst = processed.shares]]
                /\ pc' = [pc EXCEPT ![p] = "exp_put_save"]
                /\ UNCHANGED <<req, res>>
    /\ UNCHANGED <<Family, Expense, Debt, now, ok>>

\* await expense.save(): amount and sharedAmongst are written to the stored
\* expense
ExpensePutSave(p) ==
    /\ pc[p] = "exp_put_save"
    /\ Expense' = [Expense EXCEPT ![req[p].id].amount = doc[p].amount,
                                  ![req[p].id].sharedAmongst = doc[p].sharedAmongst]
    /\ Respond(p, "expense_put", 200, "")
    /\ UNCHANGED <<Family, Debt, now, ok>>

\* the bodies of the requests: one or two shares for distinct users (u4 is
\* not a member), any share type, the values 50 and 100; amounts 100 and 200
ReqShareUsers == <<"u1", "u2", "u4">>

ReqShareLists ==
    UNION { { [i \in 1..n |-> [user |-> ReqShareUsers[u[i]], shareType |-> t[i],
                               shareValue |-> v[i]]] :
                u \in {w \in [1..n -> 1..Len(ReqShareUsers)] :
                         \A i \in 1..n : \A j \in 1..n : i < j => w[i] < w[j]},
                t \in [1..n -> {"equal", "percentage", "fixed"}],
                v \in [1..n -> {Num(50), Num(100)}] } : n \in 1..2 }

ReqAmounts == {Num(100), Num(200)}

ExpInit ==
    /\ Family = InitFamily
    /\ Expense = <<>>
    /\ Debt = <<>>
    /\ now = 0
    /\ pc = [p \in Procs |-> "idle"]
    /\ req = [p \in Procs |-> NoReq]
    /\ doc = [p \in Procs |-> NULL]
    /\ res = [p \in Procs |-> NoRes]
    /\ ok = [finalize |-> [d \in DebtIds |-> 0],
             settle   |-> [d \in DebtIds |-> [i \in DebtIndexes |-> 0]]]

ExpArrive(p) ==
    \/ \E user \in Callers, familyId \in FamilyIds, amount \in ReqAmounts,
          sharedAmongst \in ReqShareLists \cup {<<>>} :
          ExpensePostIsFamilyMember(p, user, familyId, amount, sharedAmongst)
    \/ \E user \in Callers, id \in 1..MaxStoredExpenses,
          amount \in ReqAmounts \cup {0},
          sharedAmongst \in ReqShareLists \cup {<<>>} :
          ExpensePutFindById(p, user, id, amount, sharedAmongst)

ExpStep(p) ==
    \/ ExpensePostFindById(p)
    \/ ExpensePostSave(p)
    \/ ExpensePutUpdate(p)
    \/ ExpensePutSave(p)

\* the expense routes, requests served one after the other
ExpNext ==
    \/ ExpArrive(1)
    \/ ExpStep(1)

ExpSpec == ExpInit /\ [][ExpNext]_vars

\* ------------------------------------------------------------ api/families
\* The family routes.  A stored family is its members array; its name, its
\* time stamps and the joinedAt of a member are read by no handler.  The
\* inviteCode, a uuid unique to the family, is modelled by the family's id.
FamUsers == {"u1", "u2", "u3"}

\* members.findIndex(member => member.user.toString() === userId): the
\* zero-based index of the first match, or -1
MemberIndex(members, userId) ==
    LET hits == {k \in 1..Len(members) : members[k].user = userId}
    IN  IF hits = {} THEN -1
        ELSE (CHOOSE k \in hits : \A j \in hits : k <= j) - 1

\* members.findIndex(member => member.user.toString() === userId &&
\*                             member.role === 'head')
HeadIndex(members, userId) ==
    LET hits == {k \in 1..Len(members) :
                   members[k].user = userId /\ members[k].role = "head"}
    IN  IF hits = {} THEN -1
        ELSE (CHOOSE k \in hits : \A j \in hits : k <= j) - 1

\* members.splice(memberIndex, 1)
Splice(members, memberIndex) ==
    [k \in 1..(Len(members) - 1) |->
       IF k <= memberIndex THEN members[k] ELSE members[k + 1]]

\* variant of the transfer that leaves the role of the current head alone
TransferOwnership_NoDemote(members, currentHeadIndex, newHeadIndex) ==
    [members EXCEPT ![newHeadIndex + 1].role = "head"]

\* members[currentHeadIndex].role = 'member';
\* members[newHeadIndex].role = 'head', in this order
TransferOwnership(members, currentHeadIndex, newHeadIndex) ==
    LET demoted == [members EXCEPT ![currentHeadIndex + 1].role = "member"]
    IN  [demoted EXCEPT ![newHeadIndex + 1].role = "head"]

\* POST api/families: await family.save() inserts the new family, whose one
\* member is the caller with role head
FamilyPostSave(p, user) ==
    /\ pc[p] = "idle"
    /\ \E id \in FamilyIds \ DOMAIN Family :
          /\ Family' = [f \in (DOMAIN Family) \cup {id} |->
                          IF f = id
                          THEN [members |-> <<[user |-> user, role |-> "head"]>>]
                          ELSE Family[f]]
          /\ req' = [req EXCEPT ![p] =
                       [op |-> "family_create", user |-> user, id |-> id]]
    /\ pc' = [pc EXCEPT ![p] = "fam_post_findById"]
    /\ doc' = [doc EXCEPT ![p] = NULL]
    /\ res' = [res EXCEPT ![p] = NoRes]
    /\ UNCHANGED <<Expense, Debt, now, ok>>

\* await Family.findById(family._id).populate(...), then res.json
FamilyPostFindById(p) ==
    /\ pc[p] = "fam_post_findById"
    /\ Respond(p, "family_create", 200, "")
    /\ UNCHANGED <<Family, Expense, Debt, now, ok>>

\* POST api/families/join: await Family.findOne({inviteCode}), the checks and
\* the push on the loaded document
FamilyJoinFindOne(p, user, inviteCode) ==
    /\ pc[p] = "idle"
    /\ IF inviteCode \notin DOMAIN Family
       THEN Respond(p, "family_join", 404, "Invalid invite code")
       ELSE IF MemberIndex(Family[inviteCode].members, user) # -1
       THEN Respond(p, "family_join", 400, "You are already a member of this family")
       ELSE /\ pc' = [pc EXCEPT ![p] = "fam_join_save"]
            /\ req' = [req EXCEPT ![p] =
                         [op |-> "family_join", user |-> user, id |-> inviteCode]]
            /\ doc' = [doc EXCEPT ![p] =
                         [members |-> Append(Family[inviteCode].members,
                                             [user |-> user, role |-> "member"])]]
            /\ res' = [res EXCEPT ![p] = NoRes]
    /\ UNCHANGED <<Family, Expense, Debt, now, ok>>

\* await family.save(): the pushed member is stored
FamilyJoinSave(p) ==
    /\ pc[p] = "fam_join_save"
    /\ Family' = [Family EXCEPT ![req[p].id].members =
                     Append(@, doc[p].members[Len(doc[p].members)])]
    /\ pc' = [pc EXCEPT ![p] = "fam_join_findById"]
    /\ UNCHANGED <<Expense, Debt, now, req, doc, res, ok>>

\* await Family.findById(family._id).populate(...), then res.json
FamilyJoinFindById(p) ==
    /\ pc[p] = "fam_join_findById"
    /\ Respond(p, "family_join", 200, "")
    /\ UNCHANGED <<Family, Expense, Debt, now, ok>>

\* DELETE api/families/:id/leave: await Family.findById, the checks and the
\* splice on the loaded document
FamilyLeaveFindById(p, user, id) ==
    /\ pc[p] = "idle"
    /\ IF id \notin DOMAIN Family
       THEN Respond(p, "family_leave", 404, "Family not found")
       ELSE LET members == Family[id].members
                memberIndex == MemberIndex(members, user)
                isHead == members[memberIndex + 1].role = "head"
            IN  IF memberIndex = -1
                THEN Respond(p, "family_leave", 400,
                             "You are not a member of this family")
                ELSE IF isHead /\ Len(members) > 1
                THEN Respond(p, "family_leave", 400, "Head of family cannot leave")
                ELSE /\ pc' = [pc EXCEPT ![p] =
                                 IF isHead /\ Len(members) = 1
                                 THEN "fam_leave_delete" ELSE "fam_leave_save"]
                     /\ req' = [req EXCEPT ![p] =
                                  [op |-> "family_leave", user |-> user, id |-> id]]
                     /\ doc' = [doc EXCEPT ![p] =
                                  IF isHead /\ Len(members) = 1
                                  THEN [members |-> members]
                                  ELSE [members |-> Splice(members, memberIndex)]]
                     /\ res' = [res EXCEPT ![p] = NoRes]
    /\ UNCHANGED <<Family, Expense, Debt, now, ok>>

\* await Family.findByIdAndDelete(req.params.id)
FamilyLeaveDelete(p) ==
    /\ pc[p] = "fam_leave_delete"
    /\ Family' = [f \in (DOMAIN Family) \ {req[p].id} |-> Family[f]]
    /\ Respond(p, "family_leave", 200, "Family deleted successfully")
    /\ UNCHANGED <<Expense, Debt, now, ok>>

\* await family.save(): the members array without the caller is stored
FamilyLeaveSave(p) ==
    /\ pc[p] = "fam_leave_save"
    /\ Family' = [Family EXCEPT ![req[p].id].members = doc[p].members]
    /\ Respond(p, "family_leave", 200, "Successfully left the family")
    /\ UNCHANGED <<Expense, Debt, now, ok>>

\* PUT api/families/:id/transfer-ownership: await Family.findById, the checks
\* and the two role assignments on the loaded document
FamilyTransferFindById(p, user, id, newHeadId) ==
    /\ pc[p] = "idle"
    /\ IF id \notin DOMAIN Family
       THEN Respond(p, "family_transfer", 404, "Family not found")
       ELSE LET members == Family[id].members
                currentHeadIndex == HeadIndex(members, user)
                newHeadIndex == MemberIndex(members, newHeadId)
            IN  IF currentHeadIndex = -1
                THEN Respond(p, "family_transfer", 403,
                             "Only head of family can transfer ownership")
                ELSE IF newHeadIndex = -1
                THEN Respond(p, "family_transfer", 400,
                             "New head must be a member of the family")
                ELSE /\ pc' = [pc EXCEPT ![p] = "fam_transfer_save"]
                     /\ req' = [req EXCEPT ![p] =
                                  [op |-> "family_transfer", user |-> user,
                                   id |-> id, newHeadId |-> newHeadId]]
                     /\ doc' = [doc EXCEPT ![p] =
                                  [members |-> TransferOwnership(
                                     members, currentHeadIndex, newHeadIndex)]]
                     /\ res' = [res EXCEPT ![p] = NoRes]
    /\ UNCHANGED <<Family, Expense, Debt, now, ok>>

\* await family.save(): the roles of the members are stored
FamilyTransferSave(p) ==
    /\ pc[p] = "fam_transfer_save"
    /\ Family' = [Family EXCEPT ![req[p].id].members =
                     [k \in 1..Len(@) |-> [@[k] EXCEPT !.role = doc[p].members[k].role]]]
    /\ pc' = [pc EXCEPT ![p] = "fam_transfer_findById"]
    /\ UNCHANGED <<Expense, Debt, now, req, doc, res, ok>>

\* await Family.findById(family._id).populate(...), then res.json
FamilyTransferPopulate(p) ==
    /\ pc[p] = "fam_transfer_findById"
    /\ Respond(p, "family_transfer", 200, "")
    /\ UNCHANGED <<Family, Expense, Debt, now, ok>>

\* no family exists yet
FamInit ==
    /\ Family = [f \in {} |-> [members |-> <<>>]]
    /\ Expense = <<>>
    /\ Debt = <<>>
    /\ now = 0
    /\ pc = [p \in Procs |-> "idle"]
    /\ req = [p \in Procs |-> NoReq]
    /\ doc = [p \in Procs |-> NULL]
    /\ res = [p \in Procs |-> NoRes]
    /\ ok = [finalize |-> [d \in DebtIds |-> 0],
             settle   |-> [d \in DebtIds |-> [i \in DebtIndexes |-> 0]]]

FamArrive(p) ==
    \/ \E user \in FamUsers : FamilyPostSave(p, user)
    \/ \E user \in FamUsers, inviteCode \in FamilyIds :
          FamilyJoinFindOne(p, user, inviteCode)
    \/ \E user \in FamUsers, id \in FamilyIds : FamilyLeaveFindById(p, user, id)
    \/ \E user \in FamUsers, id \in FamilyIds, newHeadId \in FamUsers :
          FamilyTransferFindById(p, user, id, newHeadId)

FamStep(p) ==
    \/ FamilyPostFindById(p)
    \/ FamilyJoinSave(p)
    \/ FamilyJoinFindById(p)
    \/ FamilyLeaveDelete(p)
    \/ FamilyLeaveSave(p)
    \/ FamilyTransferSave(p)
    \/ FamilyTransferPopulate(p)

\* the family routes, requests served one after the other
FamNext ==
    \/ FamArrive(1)
    \/ FamStep(1)

FamSpec == FamInit /\ [][FamNext]_vars

\* ------------------------------------------------------------- claims
Records == 1..Len(Debt)

\* two periods share a date (inclusive bounds)
PeriodsOverlap(a, b) == a.startDate <= b.endDate /\ b.startDate <= a.endDate

\* the request slot p is serving, seen from a step: the request that just
\* arrived, or the one in flight
Serving(p) == IF pc[p] = "idle" THEN req'[p] ELSE req[p]

\* C1: under requests served in sequence, a finalized record has every
\* transaction settled, and isFinalized never goes from true back to false.
C1_FinalizedAllSettled ==
    /\ [](\A d \in Records : Debt[d].isFinalized => allSettled(Debt[d]))
    /\ [][\A d \in Records : Debt[d].isFinalized => Debt'[d].isFinalized]_vars

C1_Witness ==
    \E d \in Records : /\ Debt[d].isFinalized
                       /\ Len(Debt[d].debts) > 0
                       /\ allSettled(Debt[d])

\* C2: of the finalize requests that ran concurrently against one record,
\* exactly one got a 200: once the record is finalized and no finalize request
\* on it is in flight, one success has been sent.
C2_ExactlyOneFinalizeSucceeds ==
    \A d \in Records :
       ( /\ Debt[d].isFinalized
         /\ \A p \in Procs : ~(req[p].op = "finalize" /\ req[p].debtId = d) )
       => ok.finalize[d] = 1

\* C3: each transaction is marked settled by at most one successful settle
\* request.
C3_SettledAtMostOnce ==
    \A d \in Records : \A i \in DebtIndexes : ok.settle[d][i] <= 1

\* C4: no family has two finalized records whose periods overlap.
C4_NoOverlappingFinalized ==
    \A d1 \in Records : \A d2 \in Records :
       ( /\ d1 # d2
         /\ Debt[d1].family = Debt[d2].family
         /\ Debt[d1].isFinalized
         /\ Debt[d2].isFinalized )
       => ~PeriodsOverlap(Debt[d1].period, Debt[d2].period)

\* C5: once a record is finalized, every settle and finalize request on it
\* is answered with a failure, and its transactions, isFinalized and
\* finalizedAt never change again.
C5_FinalizedImmutable ==
    [][\A d \in Records : Debt[d].isFinalized =>
          /\ Debt'[d].debts = Debt[d].debts
          /\ Debt'[d].isFinalized
          /\ Debt'[d].finalizedAt = Debt[d].finalizedAt
          /\ \A p \in Procs :
                ( /\ Serving(p).op \in {"settle", "finalize"}
                  /\ Serving(p).debtId = d )
                => /\ pc'[p] \notin {"settle_save", "finalize_save"}
                   /\ (pc'[p] = "idle" => res'[p].status \in {400, 403})]_vars

C5_Witness ==
    \E d \in Records :
       /\ Debt[d].isFinalized
       /\ Debt[d].finalizedAt < now
       /\ res[1].route = "settle"
       /\ res[1].status = 400
       /\ res[1].msg = "This debt record is already finalized"

\* C6: a finalize request on a record that is not finalized and has an
\* unsettled transaction fails, and leaves the record unchanged.
C6_FinalizeNeedsAllSettled ==
    [][\A p \in Procs :
          ( /\ Serving(p).op = "finalize"
            /\ ~Debt[Serving(p).debtId].isFinalized
            /\ \E i \in 1..Len(Debt[Serving(p).debtId].debts) :
                  ~Debt[Serving(p).debtId].debts[i].settled )
          => /\ Debt' = Debt
             /\ pc'[p] # "finalize_save"
             /\ (pc'[p] = "idle" => res'[p].status \in {400, 403})
             /\ (pc'[p] = "idle" /\ isFamilyHead(req[p].user, doc[p].family)
                   => res'[p].msg = "All debts must be settled before finalizing")]_vars

C6_Witness ==
    /\ res[1].route = "finalize"
    /\ res[1].msg = "All debts must be settled before finalizing"
    /\ \E d \in Records : \E i \in 1..Len(Debt[d].debts) :
          /\ ~Debt[d].isFinalized
          /\ Debt[d].debts[i].settled
          /\ \E j \in 1..Len(Debt[d].debts) : ~Debt[d].debts[j].settled

\* C7: a settle request for a transaction that is already settled fails,
\* and leaves the record unchanged (settled stays true, settledAt keeps the
\* first request's stamp).
C7_SecondSettleRejected ==
    [][\A p \in Procs :
          ( /\ Serving(p).op = "settle"
            /\ Serving(p).debtIndex \in 0..(Len(Debt[Serving(p).debtId].debts) - 1)
            /\ Debt[Serving(p).debtId].debts[Serving(p).debtIndex + 1].settled )
          => /\ Debt' = Debt
             /\ pc'[p] # "settle_save"
             /\ (pc'[p] = "idle" => res'[p].status \in {400, 403})
             /\ ( /\ pc'[p] = "idle"
                  /\ isFamilyHead(req[p].user, doc[p].family)
                  /\ ~doc[p].isFinalized )
                => res'[p].msg = "This debt is already settled"]_vars

C7_Witness ==
    /\ res[1].route = "settle"
    /\ res[1].msg = "This debt is already settled"
    /\ \E d \in Records : \E i \in 1..Len(Debt[d].debts) :
          /\ Debt[d].debts[i].settled
          /\ Debt[d].debts[i].settledAt < now

\* C8: a create request of a member for a period that overlaps (inclusive
\* bounds) a finalized record of the family fails with a response naming
\* such a record, and persists nothing.
C8_CreateRejectedOnFinalizedOverlap ==
    [][\A p \in Procs :
          LET r == Serving(p)
              overlapping ==
                {d \in Records :
                   /\ Debt[d].family = r.familyId
                   /\ Debt[d].isFinalized
                   /\ Debt[d].period.startDate <= r.endDate
                   /\ Debt[d].period.endDate >= r.startDate}
          IN  (r.op = "calculate" /\ overlapping # {})
              => /\ Debt' = Debt
                 /\ pc'[p] \notin {"calc_find", "calc_save"}
                 /\ (pc'[p] = "idle" =>
                       /\ res'[p].status = 400
                       /\ res'[p].msg = "This period has already been finalized"
                       /\ res'[p].finalizedDebtId \in overlapping)]_vars

C8_Witness ==
    /\ res[1].route = "calculate"
    /\ res[1].status = 400
    /\ res[1].msg = "This period has already been finalized"
    /\ Debt[res[1].finalizedDebtId].isFinalized
    /\ Len(Debt[res[1].finalizedDebtId].debts) > 0

\* C9: no persisted record has zero transactions.
C9_NoEmptyRecord ==
    \A d \in Records : Len(Debt[d].debts) > 0

\* C10 as stated: no family has two records, finalized or not, whose
\* periods overlap.
C10_OneRecordPerPeriod ==
    \A d1 \in Records : \A d2 \in Records :
       (d1 # d2 /\ Debt[d1].family = Debt[d2].family)
       => ~PeriodsOverlap(Debt[d1].period, Debt[d2].period)

\* C10 as amended: a record is created only for a period that overlaps no
\* finalized record of the family (records not yet finalized do not block
\* it), and no request removes a record or changes its family or period.
C10_CreateGatedByFinalizedOverlap ==
    [][/\ Len(Debt') >= Len(Debt)
       /\ \A d \in Records : /\ Debt'[d].family = Debt[d].family
                             /\ Debt'[d].period = Debt[d].period
       /\ Len(Debt') > Len(Debt) =>
             \A d \in Records :
                (Debt[d].family = Debt'[Len(Debt')].family /\ Debt[d].isFinalized)
                => ~PeriodsOverlap(Debt[d].period, Debt'[Len(Debt')].period)]_vars

C10_Witness ==
    \E d1 \in Records : \E d2 \in Records :
       /\ d1 < d2
       /\ Debt[d1].family = Debt[d2].family
       /\ PeriodsOverlap(Debt[d1].period, Debt[d2].period)
       /\ Debt[d1].isFinalized

ExpensesOf(debt) ==
    ExpensesInPeriod(debt.family, debt.period.startDate, debt.period.endDate)

\* the net balances simplifyDebts derives for a record's expenses
BalancesOf(debt) == NetBalances(calculateRawDebts(ExpensesOf(debt)))

\* sum of the amounts of the transactions with the given user as from / to
RECURSIVE SumFrom(_, _)
SumFrom(transactions, user) ==
    IF transactions = <<>> THEN 0
    ELSE (IF Head(transactions).from = user THEN Head(transactions).amount ELSE 0)
         + SumFrom(Tail(transactions), user)

RECURSIVE SumTo(_, _)
SumTo(transactions, user) ==
    IF transactions = <<>> THEN 0
    ELSE (IF Head(transactions).to = user THEN Head(transactions).amount ELSE 0)
         + SumTo(Tail(transactions), user)

\* C12: conservation.  For every record and every user with a nonzero net
\* balance, what the user pays minus what the user receives in the record's
\* transactions equals minus the balance, within 0.01.
C12_Conservation ==
    \A d \in Records : \A user \in Users :
       BalancesOf(Debt[d]).val[user] # 0
       => Abs(SumFrom(Debt[d].debts, user) - SumTo(Debt[d].debts, user)
              + BalancesOf(Debt[d]).val[user]) <= Epsilon

\* C13: transaction count bound.  When some user's balance is beyond the
\* 0.01 epsilon, a record holds at most (debtors + creditors - 1)
\* transactions.
C13_TransactionCountBound ==
    \A d \in Records :
       LET balances == BalancesOf(Debt[d])
           n == Len(Debtors(balances, 1)) + Len(Creditors(balances, 1))
       IN  n > 0 => Len(Debt[d].debts) <= n - 1

\* the bound is reached with three transactions
C13_Witness ==
    \E d \in Records :
       LET balances == BalancesOf(Debt[d])
       IN  /\ Len(Debt[d].debts) = 3
           /\ Len(Debtors(balances, 1)) + Len(Creditors(balances, 1)) = 4

\* sum of the balances of all keys from the i-th on
RECURSIVE SumBalances(_, _)
SumBalances(balances, i) ==
    IF i > Len(balances.keys) THEN 0
    ELSE balances.val[balances.keys[i]] + SumBalances(balances, i + 1)

\* C14: zero-sum.  The net balances derived from the raw debts of a record's
\* expenses sum to zero over all users, and only users who are a key of the
\* balances have a balance.
C14_ZeroSum ==
    \A d \in Records :
       LET balances == BalancesOf(Debt[d])
       IN  /\ SumBalances(balances, 1) = 0
           /\ \A user \in Users :
                 user \notin SeqToSet(balances.keys) => balances.val[user] = 0

\* four users with a nonzero balance, two of them creditors
C14_Witness ==
    \E d \in Records :
       LET balances == BalancesOf(Debt[d])
       IN  /\ \A user \in Users : balances.val[user] # 0
           /\ Cardinality({user \in Users : balances.val[user] > 0}) = 2

\* A (u1) pays 90 split equally among A, B (u2), C (u3); B pays 30 split
\* equally between B and C
ThreeUserScenario ==
    << CalcExpense("u1", Num(90),
         <<[user |-> "u1", shareType |-> "equal", shareValue |-> Div(Num(1), Num(3))],
           [user |-> "u2", shareType |-> "equal", shareValue |-> Div(Num(1), Num(3))],
           [user |-> "u3", shareType |-> "equal", shareValue |-> Div(Num(1), Num(3))]>>),
       CalcExpense("u2", Num(30),
         <<[user |-> "u2", shareType |-> "equal", shareValue |-> Div(Num(1), Num(2))],
           [user |-> "u3", shareType |-> "equal", shareValue |-> Div(Num(1), Num(2))]>>) >>

\* the from, to and amount of each transaction of a record, in order
TransactionsOf(debt) ==
    [i \in 1..Len(debt.debts) |->
       [from |-> debt.debts[i].from, to |-> debt.debts[i].to,
        amount |-> debt.debts[i].amount]]

\* C15: for the three-user scenario calculateRawDebts gives B->A 30, C->A 30,
\* C->B 15 and nothing else, and the record calculated from it holds exactly
\* the transactions (C, A, 45), (B, A, 15) in this order.
C15_ThreeUserScenario ==
    Expense = ThreeUserScenario =>
       /\ LET rawDebts == calculateRawDebts(Expense)
          IN  \A debtor \in Users : \A creditor \in Users :
                 rawDebts.amt[debtor][creditor] =
                    IF debtor = "u2" /\ creditor = "u1" THEN Num(30)
                    ELSE IF debtor = "u3" /\ creditor = "u1" THEN Num(30)
                    ELSE IF debtor = "u3" /\ creditor = "u2" THEN Num(15)
                    ELSE 0
       /\ \A d \in Records :
             TransactionsOf(Debt[d]) =
                << [from |-> "u3", to |-> "u1", amount |-> Num(45)],
                   [from |-> "u2", to |-> "u1", amount |-> Num(15)] >>

C15_Witness ==
    /\ Expense = ThreeUserScenario
    /\ Len(Debt) > 0
    /\ res[1].route = "calculate"
    /\ res[1].status = 200

\* the share-type rule: what a share of an expense of the given amount owes
RuleOwed(amount, share) ==
    CASE share.shareType = "equal"      -> Mul(amount, share.shareValue)
      [] share.shareType = "percentage" -> Mul(amount, share.shareValue) \div 100
      [] share.shareType = "fixed"      -> share.shareValue
      [] OTHER                          -> 0

\* what the shares of one expense, from the k-th on, make beneficiary owe payer
RECURSIVE SharesOwed(_, _, _, _)
SharesOwed(expense, k, beneficiary, payer) ==
    IF k > Len(expense.sharedAmongst) THEN 0
    ELSE (IF /\ expense.sharedAmongst[k].user = beneficiary
             /\ expense.creator = payer
             /\ beneficiary # payer
          THEN RuleOwed(expense.amount, expense.sharedAmongst[k]) ELSE 0)
         + SharesOwed(expense, k + 1, beneficiary, payer)

RECURSIVE ExpectedOwed(_, _, _, _)
ExpectedOwed(expenses, e, beneficiary, payer) ==
    IF e > Len(expenses) THEN 0
    ELSE SharesOwed(expenses[e], 1, beneficiary, payer)
         + ExpectedOwed(expenses, e + 1, beneficiary, payer)

\* beneficiary has a share, not the payer's own, in an expense payer created
HasShare(expenses, beneficiary, payer) ==
    \E e \in 1..Len(expenses) : \E k \in 1..Len(expenses[e].sharedAmongst) :
       /\ expenses[e].sharedAmongst[k].user = beneficiary
       /\ expenses[e].creator = payer
       /\ beneficiary # payer

\* C16: calculateRawDebts returns the matrix whose entry [beneficiary][payer]
\* is the sum of the owed amounts of all shares of beneficiary in expenses of
\* payer, the payer's own shares left out; its keys are the pairs with such
\* a share, and an empty expense list gives the empty matrix.
C16_RawDebtsMatrix ==
    LET rawDebts == calculateRawDebts(Expense)
    IN  /\ \A beneficiary \in Users : \A payer \in Users :
              /\ rawDebts.amt[beneficiary][payer] =
                    ExpectedOwed(Expense, 1, beneficiary, payer)
              /\ payer \in SeqToSet(rawDebts.cred[beneficiary])
                    <=> HasShare(Expense, beneficiary, payer)
        /\ \A beneficiary \in Users :
              beneficiary \in SeqToSet(rawDebts.order)
                 <=> \E payer \in Users : HasShare(Expense, beneficiary, payer)
        /\ Expense = <<>> => rawDebts = EmptyDebtMap

\* a record calculated from a list in which two expenses add to one entry of
\* the matrix, one expense has a share of its creator, and a percentage
\* share counts
C16_Witness ==
    /\ Len(Debt) > 0
    /\ \E beneficiary \in Users : \E payer \in Users :
          \E e1 \in 1..Len(Expense) : \E e2 \in 1..Len(Expense) :
             /\ e1 < e2
             /\ SharesOwed(Expense[e1], 1, beneficiary, payer) > 0
             /\ SharesOwed(Expense[e2], 1, beneficiary, payer) > 0
    /\ \E e \in 1..Len(Expense) : \E k \in 1..Len(Expense[e].sharedAmongst) :
          Expense[e].sharedAmongst[k].user = Expense[e].creator
    /\ \E e \in 1..Len(Expense) : \E k \in 1..Len(Expense[e].sharedAmongst) :
          /\ Expense[e].sharedAmongst[k].shareType = "percentage"
          /\ Expense[e].sharedAmongst[k].user # Expense[e].creator

\* the permutations of 1 .. n
Perms(n) ==
    {f \in [1..n -> 1..n] : \A i \in 1..n : \A j \in 1..n : i # j => f[i] # f[j]}

\* the expense with its shares in the order the permutation g of
\* 1 .. MaxShares puts them in
Reorder(expense, g) ==
    LET order == SelectSeq([i \in 1..MaxShares |-> g[i]],
                           LAMBDA x : x <= Len(expense.sharedAmongst))
    IN  [expense EXCEPT !.sharedAmongst =
           [k \in 1..Len(order) |-> expense.sharedAmongst[order[k]]]]

\* the expense lists obtained by permuting the expenses and, inside each
\* expense, the shares
Reorderings(expenses) ==
    { [i \in 1..Len(expenses) |-> Reorder(expenses[f[i]], g[i])] :
        f \in Perms(Len(expenses)),
        g \in [1..Len(expenses) -> Perms(MaxShares)] }

\* the matrix without the order of its keys
MatrixOf(rawDebts) ==
    [keys |-> SeqToSet(rawDebts.order),
     cred |-> [u \in Users |-> SeqToSet(rawDebts.cred[u])],
     amt  |-> rawDebts.amt]

KnownShareTypes == {"equal", "percentage", "fixed"}

\* the expense list without the shares of an unrecognised share type
WithoutUnknownShares(expenses) ==
    [e \in 1..Len(expenses) |->
       [expenses[e] EXCEPT !.sharedAmongst =
          SelectSeq(@, LAMBDA share : share.shareType \in KnownShareTypes)]]

\* C18: a share of an unrecognised share type adds 0 to the matrix: the
\* amounts are those of the same list without such shares, and the
\* calculation goes through.
C18_UnknownShareTypeOwesNothing ==
    /\ calculateRawDebts(Expense).amt
          = calculateRawDebts(WithoutUnknownShares(Expense)).amt
    /\ pc[1] = "idle" /\ res[1].route = "calculate" /\ Expense # <<>>
          => res[1].status = 200

\* a record calculated from an expense with an unrecognised share of a user
\* who is not the creator, next to a share that owes something
C18_Witness ==
    /\ Len(Debt) > 0
    /\ res[1].status = 200
    /\ \E e \in 1..Len(Expense) :
          \E k1 \in 1..Len(Expense[e].sharedAmongst) :
          \E k2 \in 1..Len(Expense[e].sharedAmongst) :
             /\ Expense[e].sharedAmongst[k1].shareType \notin KnownShareTypes
             /\ Expense[e].sharedAmongst[k1].user # Expense[e].creator
             /\ Expense[e].sharedAmongst[k1].shareValue > 0
             /\ Expense[e].sharedAmongst[k2].shareType \in KnownShareTypes
             /\ Expense[e].sharedAmongst[k2].user # Expense[e].creator
             /\ Len(Debt[1].debts) > 0

\* C19: a user whose net balance is within 0.01 of zero is neither the from
\* nor the to of any transaction of the record.
C19_SmallBalancesExcluded ==
    \A d \in Records : \A user \in Users :
       Abs(BalancesOf(Debt[d]).val[user]) <= Epsilon
       => \A i \in 1..Len(Debt[d].debts) :
             Debt[d].debts[i].from # user /\ Debt[d].debts[i].to # user

\* a record with a transaction, calculated from expenses that leave another
\* user a balance of exactly -0.01
C19_Witness ==
    \E d \in Records : \E user \in Users :
       /\ BalancesOf(Debt[d]).val[user] = -Epsilon
       /\ Len(Debt[d].debts) > 0

RECURSIVE SumTypedShares(_, _)
SumTypedShares(sharedAmongst, shareType) ==
    IF sharedAmongst = <<>> THEN 0
    ELSE (IF Head(sharedAmongst).shareType = shareType
          THEN Head(sharedAmongst).shareValue ELSE 0)
         + SumTypedShares(Tail(sharedAmongst), shareType)

AllSharesOfType(expense, shareType) ==
    /\ expense.sharedAmongst # <<>>
    /\ \A k \in 1..Len(expense.sharedAmongst) :
          expense.sharedAmongst[k].shareType = shareType

\* C20: every stored expense whose shares are all fixed has share values
\* summing to its amount, and every stored expense whose shares are all
\* percentages has share values summing to 100, both within 0.01.
C20_ShareSumInvariant ==
    \A e \in 1..Len(Expense) :
       /\ AllSharesOfType(Expense[e], "fixed")
             => Abs(SumTypedShares(Expense[e].sharedAmongst, "fixed")
                    - Expense[e].amount) <= Epsilon
       /\ AllSharesOfType(Expense[e], "percentage")
             => Abs(SumTypedShares(Expense[e].sharedAmongst, "percentage")
                    - Num(100)) <= Epsilon

\* C21: all shares stored on one expense have the same shareType.
C21_UniformShareType ==
    \A e \in 1..Len(Expense) :
       \A k1 \in 1..Len(Expense[e].sharedAmongst) :
       \A k2 \in 1..Len(Expense[e].sharedAmongst) :
          Expense[e].sharedAmongst[k1].shareType
             = Expense[e].sharedAmongst[k2].shareType

\* the request carries shares, all of them fixed, whose values do not sum
\* to the given amount within 0.01
FixedSharesMismatch(sharedAmongst, amount) ==
    /\ Len(sharedAmongst) > 0
    /\ \A k \in 1..Len(sharedAmongst) : sharedAmongst[k].shareType = "fixed"
    /\ Abs(SumShareValues(sharedAmongst) - amount) > Epsilon

\* the amount the expense of a request in flight would be stored with
EffectiveAmount(r) ==
    IF r.op = "expense_post" THEN r.amount
    ELSE IF r.amount # 0 THEN r.amount
    ELSE Expense[r.id].amount

\* C22: an expense create or update request with fixed shares that do not
\* sum to the expense amount fails (for an authorised user naming family
\* members: with "Fixed shares must total to expense amount") and persists
\* nothing.
C22_FixedSharesMismatchRejected ==
    [][\A p \in Procs :
          LET r == Serving(p)
          IN  ( /\ r.op \in {"expense_post", "expense_put"}
                /\ FixedSharesMismatch(r.sharedAmongst, EffectiveAmount(r)) )
              => /\ Expense' = Expense
                 /\ pc'[p] \notin {"exp_post_save", "exp_put_save"}
                 /\ (pc'[p] = "idle" => res'[p].status \in {400, 403})
                 /\ ( /\ pc'[p] = "idle"
                      /\ res'[p].status = 400
                      /\ \A k \in 1..Len(r.sharedAmongst) :
                            r.sharedAmongst[k].user \in FamilyMemberIds("f1") )
                    => res'[p].msg = "Fixed shares must total to expense amount"]_vars

\* an update rejected for its fixed shares, of a stored expense of 100 with
\* fixed shares
C22_Witness ==
    /\ res[1].route = "expense_put"
    /\ res[1].status = 400
    /\ res[1].msg = "Fixed shares must total to expense amount"
    /\ Len(Expense) = 1
    /\ Expense[1].amount = Num(100)
    /\ AllSharesOfType(Expense[1], "fixed")

\* C23: READY is derived.  Once a settle request has succeeded for every
\* index of a record that is not finalized, a finalize request of the head
\* goes through to its save and ends with 200 and the record finalized; and
\* every record that is not finalized is eventually finalized by the head's
\* settle and finalize requests.
C23_ReadyDerived ==
    /\ [][\A p \in Procs :
             LET r == Serving(p)
             IN  ( /\ r.op = "finalize"
                   /\ isFamilyHead(r.user, Debt[r.debtId].family)
                   /\ ~Debt[r.debtId].isFinalized
                   /\ \A i \in 0..(Len(Debt[r.debtId].debts) - 1) :
                         ok.settle[r.debtId][i] >= 1 )
                 => \/ pc'[p] \in {"finalize_isFamilyHead", "finalize_save"}
                    \/ /\ pc'[p] = "idle"
                       /\ res'[p].status = 200
                       /\ Debt'[r.debtId].isFinalized]_vars
    /\ \A d \in DebtIds :
          (d \in Records /\ ~Debt[d].isFinalized)
             ~> (d \in Records /\ Debt[d].isFinalized)

\* a record finalized after index 1 was settled before index 0
C23_Witness ==
    /\ Len(Debt) > 0
    /\ Debt[1].isFinalized
    /\ Len(Debt[1].debts) = 2
    /\ ok.settle[1][0] = 1
    /\ ok.settle[1][1] = 1
    /\ ok.finalize[1] = 1
    /\ Debt[1].debts[2].settledAt < Debt[1].debts[1].settledAt

\* the list is in descending order of amount
IsDescending(list) ==
    \A i \in 1..Len(list) : \A j \in 1..Len(list) :
       i < j => list[i].amount >= list[j].amount

\* the amount of the entry at the given position, 0 past the end
AmountAt(list, i) == IF i <= Len(list) THEN list[i].amount ELSE 0

\* the transactions from the i-th on are those of the greedy matching that
\* walks the two lists from the positions di and ci, with dRem and cRem
\* left of the two front entries, and never looks at a later entry before
\* the front one is evicted
RECURSIVE FollowsFronts(_, _, _, _, _, _, _, _)
FollowsFronts(transactions, i, debtors, di, dRem, creditors, ci, cRem) ==
    IF di > Len(debtors) \/ ci > Len(creditors) THEN i > Len(transactions)
    ELSE LET amount == IF dRem <= cRem THEN dRem ELSE cRem
             dNext == IF dRem - amount < Epsilon THEN di + 1 ELSE di
             cNext == IF cRem - amount < Epsilon THEN ci + 1 ELSE ci
         IN  /\ i <= Len(transactions)
             /\ transactions[i].from = debtors[di].user
             /\ transactions[i].to = creditors[ci].user
             /\ transactions[i].amount = Round2(amount)
             /\ FollowsFronts(transactions, i + 1,
                   debtors, dNext,
                   IF dNext = di THEN dRem - amount ELSE AmountAt(debtors, dNext),
                   creditors, cNext,
                   IF cNext = ci THEN cRem - amount ELSE AmountAt(creditors, cNext))

\* the debtors and the creditors of a record's expenses, as sorted once
DebtorsOf(debt) ==
    LET debtors == Debtors(BalancesOf(debt), 1)
    IN  SortDesc(debtors, Len(debtors))

CreditorsOf(debt) ==
    LET creditors == Creditors(BalancesOf(debt), 1)
    IN  SortDesc(creditors, Len(creditors))

\* C24: simplifyDebts is the greedy matching without re-sorting.  The two
\* lists are in descending order, holding the same entries as before the
\* sort, and the transactions of a record are those of the walk over the
\* front entries.
C24_GreedyWithoutResort ==
    \A d \in Records :
       LET debtors == DebtorsOf(Debt[d])
           creditors == CreditorsOf(Debt[d])
       IN  /\ IsDescending(debtors)
           /\ IsDescending(creditors)
           /\ SeqToSet(debtors) = SeqToSet(Debtors(BalancesOf(Debt[d]), 1))
           /\ SeqToSet(creditors) = SeqToSet(Creditors(BalancesOf(Debt[d]), 1))
           /\ Len(debtors) = Len(Debtors(BalancesOf(Debt[d]), 1))
           /\ Len(creditors) = Len(Creditors(BalancesOf(Debt[d]), 1))
           /\ FollowsFronts(TransactionsOf(Debt[d]), 1,
                            debtors, 1, AmountAt(debtors, 1),
                            creditors, 1, AmountAt(creditors, 1))

\* a record in which the first creditor, not paid in full by the first
\* transaction, is left with less than the second creditor has and is still
\* the payee of the second transaction
C24_Witness ==
    \E d \in Records :
       LET creditors == CreditorsOf(Debt[d])
       IN  /\ Len(Debt[d].debts) >= 2
           /\ Len(creditors) >= 2
           /\ Debt[d].debts[1].to = creditors[1].user
           /\ Debt[d].debts[2].to = creditors[1].user
           /\ creditors[1].amount - Debt[d].debts[1].amount < creditors[2].amount

\* C25: every transaction of a record has an amount of at least 0.01 and a
\* payer other than its payee, and no user is the payer of one transaction
\* and the payee of another.
C25_PositiveAmounts ==
    \A d \in Records :
       \A i \in 1..Len(Debt[d].debts) :
          /\ Debt[d].debts[i].amount >= Epsilon
          /\ \A j \in 1..Len(Debt[d].debts) :
                Debt[d].debts[i].from # Debt[d].debts[j].to

\* a record with two transactions or more, one of them of 0.02 at most
C25_Witness ==
    \E d \in Records :
       /\ Len(Debt[d].debts) >= 2
       /\ \E i \in 1..Len(Debt[d].debts) : Debt[d].debts[i].amount <= 2 * Epsilon

\* C26: the record a successful create request persists is OPEN: it is not
\* finalized, every transaction is unsettled with no settledAt, and the
\* transactions are those simplifyDebts emitted, in that order.
C26_CreatedOpen ==
    [][Len(Debt') > Len(Debt) =>
          LET debt == Debt'[Len(Debt')]
          IN  /\ Len(Debt') = Len(Debt) + 1
              /\ res'[1].route = "calculate"
              /\ res'[1].status = 200
              /\ ~debt.isFinalized
              /\ debt.finalizedAt = NULL
              /\ \A i \in 1..Len(debt.debts) :
                    /\ ~debt.debts[i].settled
                    /\ debt.debts[i].settledAt = NULL
              /\ TransactionsOf(debt)
                    = simplifyDebts(calculateRawDebts(
                        ExpensesInPeriod(debt.family, debt.period.startDate,
                                         debt.period.endDate)))]_vars

\* a created record with three transactions
C26_Witness ==
    /\ res[1].route = "calculate"
    /\ res[1].status = 200
    /\ Len(Debt) > 0
    /\ Len(Debt[Len(Debt)].debts) = 3
    /\ ~Debt[Len(Debt)].isFinalized

\* C27: a successful settle request on index i changes the stored records in
\* transaction i of its record (settled becomes true, settledAt is stamped)
\* and in the record's updatedAt only: the other transactions, the payer, payee
\* and amount of transaction i, the period, isFinalized and every other record
\* are as before.
C27_SettleChangesOneTransaction ==
    [][\A p \in Procs :
         (pc[p] = "settle_save" /\ pc'[p] = "idle") =>
           LET d == req[p].debtId
               i == req[p].debtIndex + 1
           IN  /\ res'[p].status = 200
               /\ Len(Debt') = Len(Debt)
               /\ \A e \in 1..Len(Debt) : e # d => Debt'[e] = Debt[e]
               /\ Debt'[d].debts[i].settled
               /\ Debt'[d].debts[i].settledAt \in 0..MaxNow
               /\ Debt'[d].updatedAt \in 0..MaxNow
               /\ Debt'[d] = [Debt[d] EXCEPT
                                !.debts[i].settled = TRUE,
                                !.debts[i].settledAt = Debt'[d].debts[i].settledAt,
                                !.updatedAt = Debt'[d].updatedAt]]_vars

\* the second transaction of a two-transaction record has been settled at
\* time 1 and the first is still open, beside another record
C27_Witness ==
    /\ res[1].route = "settle"
    /\ res[1].status = 200
    /\ Len(Debt) = 2
    /\ Len(Debt[1].debts) = 2
    /\ ~Debt[1].debts[1].settled
    /\ Debt[1].debts[2].settled
    /\ Debt[1].updatedAt = 1
    /\ ~Debt[1].isFinalized

\* C28: no settle request commits a write to a finalized record: when the
\* save of a settle request lands on a record whose isFinalized is true, no
\* settled, settledAt or updatedAt value of the record changes, also when the
\* request read the record before it was finalized.
C28_NoSettleWriteAfterFinalize ==
    [][\A p \in Procs :
         (pc[p] = "settle_save" /\ pc'[p] = "idle"
            /\ Debt[req[p].debtId].isFinalized)
           => Debt'[req[p].debtId] = Debt[req[p].debtId]]_vars

\* the roles a user holds in a family; empty for a user outside it
RolesOf(user, familyId) ==
    IF familyId \notin DOMAIN Family THEN {}
    ELSE {m.role : m \in {n \in SeqToSet(Family[familyId].members) : n.user = user}}

\* C29: a settle or finalize request of a user who is not the head of the
\* record's family changes no record, never reaches its save and is answered
\* 403; a calculate request of a user who is not a member of the family is
\* answered 403 at once and never reaches the queries or the save, so it
\* persists nothing.
C29_Forbidden ==
    [][\A p \in Procs :
         LET r == Serving(p)
         IN  /\ (/\ r.op \in {"settle", "finalize"}
                 /\ "head" \notin RolesOf(r.user, Debt[r.debtId].family))
                 => /\ Debt' = Debt
                    /\ pc'[p] \notin {"settle_save", "finalize_save"}
                    /\ (pc[p] # "idle" /\ pc'[p] = "idle")
                          => /\ res'[p].route = r.op
                             /\ res'[p].status = 403
             /\ (r.op = "calculate" /\ RolesOf(r.user, r.familyId) = {})
                 => /\ pc[p] # "idle"
                    /\ pc'[p] = pc[p]
             /\ (/\ pc[p] = "idle"
                 /\ pc'[p] = "idle"
                 /\ res'[p].route = "calculate"
                 /\ res'[p] # res[p])
                 => /\ res'[p].status = 403
                    /\ Debt' = Debt]_vars

\* a finalize request of a user who is not the head has been answered 403
\* while the record has every transaction settled and is not finalized
C29_Witness ==
    /\ res[1].route = "finalize"
    /\ res[1].status = 403
    /\ Len(Debt) >= 1
    /\ \E d \in 1..Len(Debt) : allSettled(Debt[d]) /\ ~Debt[d].isFinalized

\* the users holding role head, and all the users, of a members array
HeadsOf(members) == {members[k].user : k \in {j \in 1..Len(members) : members[j].role = "head"}}
UsersOf(members) == {members[k].user : k \in 1..Len(members)}

\* every existing family has one entry with role head and at least one member
OneHead ==
    \A f \in DOMAIN Family :
       /\ Len(Family[f].members) >= 1
       /\ Cardinality({k \in 1..Len(Family[f].members) :
                         Family[f].members[k].role = "head"}) = 1

\* C30: after any sequence of family create, join, leave and
\* transfer-ownership requests every existing family has exactly one head and
\* at least one member; a family disappears only by the leave of a head who is
\* its only member; no head leaves a family that goes on existing; and the
\* save of a transfer leaves the members as they were with the requested new
\* head, also the caller, as the only head.
C30_ExactlyOneHead ==
    /\ []OneHead
    /\ [][\A f \in DOMAIN Family :
            /\ f \notin DOMAIN Family'
                 => /\ pc[1] = "fam_leave_delete"
                    /\ Len(Family[f].members) = 1
                    /\ HeadsOf(Family[f].members) = {req[1].user}
            /\ f \in DOMAIN Family'
                 => /\ HeadsOf(Family[f].members) \subseteq UsersOf(Family'[f].members)
                    /\ (pc[1] = "fam_transfer_save" /\ req[1].id = f)
                         => /\ UsersOf(Family'[f].members) = UsersOf(Family[f].members)
                            /\ HeadsOf(Family'[f].members) = {req[1].newHeadId}]_vars

\* a family of three members whose head is its last member after a transfer,
\* beside a second family
C30_Witness ==
    /\ res[1].route = "family_transfer"
    /\ res[1].status = 200
    /\ DOMAIN Family = FamilyIds
    /\ Len(Family["f1"].members) = 3
    /\ Family["f1"].members[3].role = "head"
    /\ Family["f1"].members[1].role = "member"

=============================================================================
